---- MODULE Spec2Model ----
(***************************************************************************)
(* CholLazyTensor (gpytorch/lazy/chol_lazy_tensor.py): a RootLazyTensor    *)
(* whose root is a Cholesky factor.  The model covers the constructor's    *)
(* debug-mode triangularity check, the two memoised accessors (_chol,      *)
(* _chol_diag), _cholesky, and inv_quad_logdet's scoped override of the    *)
(* process-wide flag settings.fast_computations.log_prob.                  *)
(***************************************************************************)
EXTENDS Integers, Sequences, FiniteSets, TLC

(***************************************************************************)
(* Tensor elements.  Finite elements are integers counted in units of      *)
(* 1e-3, so the constructor's tolerance 1e-3 is the integer Tol.  NaN and  *)
(* the two infinities are kept apart because the check multiplies,         *)
(* compares and tests self-equality, and each treats them differently.     *)
(***************************************************************************)
Tol == 1

MaxMag == 2

Fin(n) == [kind |-> "fin", v |-> n]

NaN == [kind |-> "nan", v |-> 0]

PosInf == [kind |-> "inf", v |-> 1]

NegInf == [kind |-> "inf", v |-> -1]

FiniteValues == {Fin(n) : n \in (0 - MaxMag)..MaxMag}

Values == FiniteValues \cup {NaN, PosInf, NegInf}

\* A matrix is a sequence of rows; a vector is a sequence of elements.
\* The empty sequence stands for storage that is not allocated.
NoTensor == <<>>

Idx(m) == 1..Len(m)

SquareMatrices(n, S) == [1..n -> [1..n -> S]]

\* 3 x 3 inputs with a unit diagonal and zeros below it: only the three
\* entries strictly above the diagonal vary.
UpperVariants(S) ==
  {<< <<Fin(1), a, b>>, <<Fin(0), Fin(1), c>>, <<Fin(0), Fin(0), Fin(1)>> >> :
      a \in S, b \in S, c \in S}

\* The constructor's inputs: every 2 x 2 matrix over Values, and the 3 x 3
\* matrices above.
CtorInputs == SquareMatrices(2, Values) \cup UpperVariants(Values)

(***************************************************************************)
(* Element arithmetic as IEEE-754 / torch computes it.                     *)
(***************************************************************************)
\* x * y for a mask element y that is 0 or 1 (line 18, chol.mul(mask)).
\* 0 times NaN or an infinity is NaN; 0 times a finite number is 0.
MulMask(x, y) ==
  IF y = 1 THEN x
  ELSE IF x.kind = "fin" THEN Fin(0) ELSE NaN

\* a <= b for elements that are not NaN.
Leq(a, b) ==
  CASE a.kind = "inf" /\ a.v < 0 -> TRUE
    [] b.kind = "inf" /\ b.v > 0 -> TRUE
    [] a.kind = "fin" /\ b.kind = "fin" -> a.v <= b.v
    [] OTHER -> a = b

\* Element-wise ==: NaN is unequal to everything, itself included.
ElemEq(a, b) == a.kind # "nan" /\ b.kind # "nan" /\ a = b

\* .item() > 1e-3 (line 18): a comparison with NaN is false.
GtTol(x) == (x.kind = "fin" /\ x.v > Tol) \/ x = PosInf

\* The magnitude of an element exceeds the tolerance (the claims' wording).
MagGtTol(x) == (x.kind = "fin" /\ (x.v > Tol \/ x.v < 0 - Tol)) \/ x.kind = "inf"

(***************************************************************************)
(* Tensor operations used by the class.                                    *)
(***************************************************************************)
\* torch.ones(chol.shape[-2:]).triu_(1) (line 17): 1 strictly above the
\* diagonal, 0 on and below it.
\* Faulty variant: triu_(0), which keeps the diagonal.
mask_with_diagonal(chol) ==
  [i \in Idx(chol) |-> [j \in Idx(chol) |-> IF j >= i THEN 1 ELSE 0]]

mask(chol) ==
  [i \in Idx(chol) |-> [j \in Idx(chol) |-> IF j > i THEN 1 ELSE 0]]

\* chol.mul(mask) (line 18): the element-wise product.
mul(chol, m) ==
  [i \in Idx(chol) |-> [j \in Idx(chol) |-> MulMask(chol[i][j], m[i][j])]]

Elements(t) == {t[i][j] : i \in Idx(t), j \in Idx(t)}

\* torch.max(t) (line 18), the reduction over every element.  Without a NaN
\* it is the largest element.  With a NaN among the elements the result
\* depends on the torch release: current releases propagate NaN, releases
\* contemporary with this code compare with > and can return the largest
\* of the other elements instead.  Both outcomes are kept.
torch_max(t) ==
  LET E == Elements(t)
      Ord == {e \in E : e.kind # "nan"}
      Largest == {e \in Ord : \A f \in Ord : Leq(f, e)}
  IN  IF NaN \in E THEN {NaN} \cup Largest ELSE Largest

\* torch.equal(a, b) (line 18): same shape and every element pair equal.
torch_equal(a, b) ==
  /\ Len(a) = Len(b)
  /\ \A i \in Idx(a) : \A j \in Idx(a) : ElemEq(a[i][j], b[i][j])

\* t.diagonal(dim1=-2, dim2=-1) (line 36): the main diagonal.
diagonal(t) == [i \in Idx(t) |-> t[i][i]]

(***************************************************************************)
(* The claims' vocabulary about an input matrix.                           *)
(***************************************************************************)
HasNaN(t) == NaN \in Elements(t)

StrictUpper(t) ==
  {t[p[1]][p[2]] : p \in {q \in Idx(t) \X Idx(t) : q[2] > q[1]}}

HasUpperMass(t) == \E x \in StrictUpper(t) : MagGtTol(x)

IsLowerTriangular(t) == \A x \in StrictUpper(t) : x = Fin(0)

(***************************************************************************)
(* State.                                                                  *)
(***************************************************************************)
VARIABLES
  debug,          \* settings.debug.on()
  fast_log_prob,  \* settings.fast_computations.log_prob.on(), process-wide
  arg,            \* the constructor's argument: a dense tensor or a LazyTensor
  heap,           \* tensor storage: T0 the argument's dense data, T1 the clone
  status,         \* "new", then "ok" (instance built) or "raised"
  self,           \* the instance's attributes; None is an absent attribute
  evaluations,    \* calls of self.root.evaluate() made by the class
  diag_computations, \* evaluations of line 36's right-hand side
  ret,            \* the last call seen by the caller and what it returned
  input0,         \* history: the dense data handed to the constructor
  first_chol,     \* history: what the first _chol call returned
  accessed,       \* history: _chol or _chol_diag has been called
  stack,          \* per thread: the open scoped overrides, innermost last
  finished,       \* per thread: an inv_quad_logdet call has come back
  last_call,      \* history: the last finished inv_quad_logdet call
  last_exit,      \* history: the last __exit__ of an inv_quad_logdet override
  flag0           \* history: fast_log_prob before any call

vars == <<debug, fast_log_prob, arg, heap, status, self, evaluations,
          diag_computations, ret, input0, first_chol, accessed, stack, finished,
          last_call, last_exit, flag0>>

cacheVars == <<heap, self, evaluations, diag_computations, ret, first_chol,
               accessed>>

flagVars == <<fast_log_prob, stack, finished, last_call, last_exit>>

\* References to objects.  Views: "full" is a dense tensor, "diag" a
\* diagonal view sharing its base's storage, "lazy" a LazyTensor wrapping a
\* dense tensor.
None == [obj |-> "none", view |-> "none"]

Ref(o, v) == [obj |-> o, view |-> v]

\* The elements seen through a reference.
Deref(h, r) ==
  IF r.view = "diag" THEN diagonal(h[r.obj]) ELSE h[r.obj]

NoInstance == [root |-> None, chol_memo |-> None, chol_diag_memo |-> None]

NoCall == [op |-> "none", ref |-> None, val |-> NoTensor]

(***************************************************************************)
(* CholLazyTensor.__init__                                                 *)
(***************************************************************************)
\* LazyTensor.evaluate(): the dense tensor behind a lazy one; a
\* NonLazyTensor hands back the tensor it wraps.
evaluate(r) == Ref(r.obj, "full")

\* lazify(t): a dense tensor wrapped as a NonLazyTensor.
lazify(r) == Ref(r.obj, "lazy")

\* Lines 12-13: a LazyTensor argument is replaced by its dense evaluation.
chol_of(a) == IF a.lazy THEN evaluate(a.ref) ELSE a.ref

\* Line 18's condition for one result m of torch.max.
\* Faulty variant: the self-equality conjunct is missing.
check_fails_without_equal(chol, m) == GtTol(m)

check_fails(chol, m) == GtTol(m) /\ torch_equal(chol, chol)

\* Lines 16-22: the outcomes of construction, "raised" (line 19) or "ok".
init_outcomes(chol, dbg) ==
  IF dbg
    THEN {IF check_fails(chol, m) THEN "raised" ELSE "ok" :
             m \in torch_max(mul(chol, mask(chol)))}
    ELSE {"ok"}

\* RootLazyTensor.__init__(chol), line 22: the root is the lazified chol,
\* which wraps the same storage.
RootLazyTensor_init(cholref) ==
  [root |-> lazify(cholref), chol_memo |-> None, chol_diag_memo |-> None]

Construct ==
  /\ status = "new"
  /\ \E o \in init_outcomes(Deref(heap, chol_of(arg)), debug) :
       /\ status' = o
       /\ self' = IF o = "ok" THEN RootLazyTensor_init(chol_of(arg)) ELSE self
  /\ UNCHANGED <<debug, arg, heap, evaluations, diag_computations, ret,
                 input0, first_chol, accessed, flag0>>
  /\ UNCHANGED flagVars

(***************************************************************************)
(* The accessors.  A world w is the part of the state a getter can read    *)
(* or write: [self, heap, evaluations, diag_computations].  Every getter   *)
(* yields the world after the call and the reference it returns.           *)
(***************************************************************************)
World == [self |-> self, heap |-> heap, evaluations |-> evaluations,
          diag_computations |-> diag_computations]

\* The _chol property (lines 27-31).
\* Faulty variant: no hasattr guard, the root is evaluated on every call.
chol_get_unmemoised(w) ==
  LET w1 == [w EXCEPT !.self.chol_memo = evaluate(w.self.root),
                      !.evaluations = @ + 1]
  IN  [w |-> w1, ref |-> w1.self.chol_memo]

chol_get(w) ==
  LET w1 == IF w.self.chol_memo = None
              THEN [w EXCEPT !.self.chol_memo = evaluate(w.self.root),
                             !.evaluations = @ + 1]
              ELSE w
  IN  [w |-> w1, ref |-> w1.self.chol_memo]

\* _cholesky (lines 24-25).
\* Faulty variant: the dense factor is handed back instead of the root.
cholesky_evaluated(w) == chol_get(w)

cholesky_get(w) == [w |-> w, ref |-> w.self.root]

\* Tensor.clone() (line 36): fresh storage holding the elements seen
\* through r.
\* Faulty variant: no copy, the view is kept.
clone_as_view(h, r) == [heap |-> h, ref |-> r]

clone(h, r) == [heap |-> [h EXCEPT !.T1 = Deref(h, r)], ref |-> Ref("T1", "full")]

\* The _chol_diag property (lines 33-37).
\* Faulty variant: the diagonal is read from the root, not through _chol.
chol_diag_get_bypassing_chol(w) ==
  LET w1 == IF w.self.chol_diag_memo = None
              THEN LET c == clone(w.heap, Ref(w.self.root.obj, "diag"))
                   IN  [w EXCEPT !.self.chol_diag_memo = c.ref,
                                 !.heap = c.heap,
                                 !.diag_computations = @ + 1]
              ELSE w
  IN  [w |-> w1, ref |-> w1.self.chol_diag_memo]

chol_diag_get(w) ==
  LET w1 == IF w.self.chol_diag_memo = None
              THEN LET g == chol_get(w)
                       c == clone(g.w.heap, Ref(g.ref.obj, "diag"))
                   IN  [g.w EXCEPT !.self.chol_diag_memo = c.ref,
                                   !.heap = c.heap,
                                   !.diag_computations = @ + 1]
              ELSE w
  IN  [w |-> w1, ref |-> w1.self.chol_diag_memo]

\* The caller has control in thread t: no inv_quad_logdet call is open.
CallerRuns(t) ==
  IF stack[t] = <<>> THEN TRUE ELSE stack[t][Len(stack[t])].kind = "with"

Threads == {"main", "other"}

\* The thread of the single-threaded executions.
Main == "main"

Returned(op, g) ==
  /\ self' = g.w.self
  /\ heap' = g.w.heap
  /\ evaluations' = g.w.evaluations
  /\ diag_computations' = g.w.diag_computations
  /\ ret' = [op |-> op, ref |-> g.ref, val |-> Deref(g.w.heap, g.ref)]

CallCholesky ==
  /\ status = "ok" /\ CallerRuns(Main)
  /\ Returned("_cholesky", cholesky_get(World))
  /\ UNCHANGED <<debug, arg, status, input0, first_chol, accessed, flag0>>
  /\ UNCHANGED flagVars

CallChol ==
  /\ status = "ok" /\ CallerRuns(Main)
  /\ Returned("_chol", chol_get(World))
  /\ first_chol' = IF first_chol = NoTensor THEN ret'.val ELSE first_chol
  /\ accessed' = TRUE
  /\ UNCHANGED <<debug, arg, status, input0, flag0>>
  /\ UNCHANGED flagVars

CallCholDiag ==
  /\ status = "ok" /\ CallerRuns(Main)
  /\ Returned("_chol_diag", chol_diag_get(World))
  /\ accessed' = TRUE
  /\ UNCHANGED <<debug, arg, status, input0, first_chol, flag0>>
  /\ UNCHANGED flagVars

\* The caller writes element i of the vector _chol_diag handed out, in place.
Write(h, r, i, x) ==
  IF r.view = "diag" THEN [h EXCEPT ![r.obj][i][i] = x]
                     ELSE [h EXCEPT ![r.obj][i] = x]

MutateReturnedDiag ==
  /\ ret.op \in {"_chol_diag", "mutate"}
  /\ \E i \in 1..Len(Deref(heap, ret.ref)) : \E x \in FiniteValues :
       /\ Deref(heap, ret.ref)[i] # x
       /\ heap' = Write(heap, ret.ref, i, x)
  /\ ret' = [ret EXCEPT !.op = "mutate"]
  /\ UNCHANGED <<debug, arg, status, self, evaluations, diag_computations,
                 input0, first_chol, accessed, flag0>>
  /\ UNCHANGED flagVars

(***************************************************************************)
(* inv_quad_logdet and the scoped override of fast_computations.log_prob.  *)
(* A frame is one open `with settings.fast_computations.log_prob(state)`:  *)
(* kind "iql" for the one inside inv_quad_logdet (line 40), kind "with"    *)
(* for one the caller opened around its own code.                          *)
(***************************************************************************)
MaxDepth == 2

\* inv_quad_logdet's arguments (line 39): is inv_quad_rhs given, logdet,
\* reduce_inv_quad.
IqlArgs == [rhs : BOOLEAN, logdet : BOOLEAN, reduce : BOOLEAN]

DefaultArgs == [rhs |-> FALSE, logdet |-> FALSE, reduce |-> TRUE]

Top(t) == stack[t][Len(stack[t])]

Push(t, f) == [stack EXCEPT ![t] = Append(@, f)]

Pop(t) == [stack EXCEPT ![t] = SubSeq(@, 1, Len(@) - 1)]

SetTop(t, f) == [stack EXCEPT ![t][Len(stack[t])] = f]

\* The scoped flag (settings.fast_computations.log_prob): constructing the
\* context manager saves the current value, entering sets the requested
\* one, leaving sets the saved one.
feature_flag_init(state, cur) == [prev |-> cur, state |-> state]

feature_flag_enter(f) == f.state

feature_flag_exit(f) == f.prev

\* Line 40: the value inv_quad_logdet asks for.
\* Faulty variant: the approximate mode is asked for.
inv_quad_logdet_state_fast == TRUE

inv_quad_logdet_state == FALSE

\* Lines 40-41: the with statement leaves through __exit__ both when the
\* body returns and when it raises.
\* Faulty variant: the flag is restored by hand after the call, which a
\* raise skips.
restores_on_return_only(outcome) == outcome = "returned"

restores_on(outcome) == outcome \in {"returned", "raised"}

NoLastCall == [thread |-> "none", pre |-> FALSE, post |-> FALSE,
               outcome |-> "none", seen |-> {}]

NoExit == [thread |-> "none", prev |-> FALSE]

\* log_prob(False) is constructed (line 40): the current value is saved.
IqlInit(t, A) ==
  /\ status = "ok" /\ CallerRuns(t)
  /\ Len(stack[t]) < MaxDepth
  /\ \E a \in A :
       LET cm == feature_flag_init(inv_quad_logdet_state, fast_log_prob)
       IN  stack' = Push(t, [kind |-> "iql", pc |-> "init", prev |-> cm.prev,
                             state |-> cm.state, pre |-> fast_log_prob,
                             seen |-> {}, outcome |-> "none", args |-> a])
  /\ UNCHANGED <<debug, fast_log_prob, arg, status, input0, flag0, finished,
                 last_call, last_exit>>
  /\ UNCHANGED cacheVars

\* __enter__ (line 40): the flag takes the requested value.
IqlEnter(t) ==
  /\ stack[t] # <<>> /\ Top(t).kind = "iql" /\ Top(t).pc = "init"
  /\ fast_log_prob' = feature_flag_enter(Top(t))
  /\ stack' = SetTop(t, [Top(t) EXCEPT !.pc = "entered"])
  /\ UNCHANGED <<debug, arg, status, input0, flag0, finished, last_call,
                 last_exit>>
  /\ UNCHANGED cacheVars

\* super().inv_quad_logdet(...) starts (line 41) and reads the flag to pick
\* the exact or the approximate computation.
SuperBegin(t) ==
  /\ stack[t] # <<>> /\ Top(t).kind = "iql" /\ Top(t).pc = "entered"
  /\ stack' = SetTop(t, [Top(t) EXCEPT !.pc = "running",
                                       !.seen = @ \cup {fast_log_prob}])
  /\ UNCHANGED <<debug, fast_log_prob, arg, status, input0, flag0, finished,
                 last_call, last_exit>>
  /\ UNCHANGED cacheVars

\* super().inv_quad_logdet(...) ends, returning its result or raising.
SuperEnd(t) ==
  /\ stack[t] # <<>> /\ Top(t).kind = "iql" /\ Top(t).pc = "running"
  /\ \E o \in {"returned", "raised"} :
       stack' = SetTop(t, [Top(t) EXCEPT !.pc = "done", !.outcome = o,
                                         !.seen = @ \cup {fast_log_prob}])
  /\ UNCHANGED <<debug, fast_log_prob, arg, status, input0, flag0, finished,
                 last_call, last_exit>>
  /\ UNCHANGED cacheVars

\* The with block is left (lines 40-41) and inv_quad_logdet returns or
\* propagates the exception.
IqlExit(t) ==
  /\ stack[t] # <<>> /\ Top(t).kind = "iql" /\ Top(t).pc = "done"
  /\ fast_log_prob' = IF restores_on(Top(t).outcome)
                        THEN feature_flag_exit(Top(t))
                        ELSE fast_log_prob
  /\ stack' = Pop(t)
  /\ finished' = [finished EXCEPT ![t] = TRUE]
  /\ last_call' = [thread |-> t, pre |-> Top(t).pre, post |-> fast_log_prob',
                   outcome |-> Top(t).outcome, seen |-> Top(t).seen]
  /\ last_exit' = [thread |-> t, prev |-> Top(t).prev]
  /\ UNCHANGED <<debug, arg, status, input0, flag0>>
  /\ UNCHANGED cacheVars

\* The caller opens `with settings.fast_computations.log_prob(v):` around
\* its own code: construction and __enter__, back to back.
WithEnter(t) ==
  /\ status = "ok" /\ CallerRuns(t)
  /\ Len(stack[t]) < MaxDepth
  /\ \E v \in BOOLEAN :
       LET cm == feature_flag_init(v, fast_log_prob)
       IN  /\ stack' = Push(t, [kind |-> "with", pc |-> "body", prev |-> cm.prev,
                                state |-> cm.state, pre |-> fast_log_prob,
                                seen |-> {}, outcome |-> "none",
                                args |-> DefaultArgs])
           /\ fast_log_prob' = feature_flag_enter(cm)
  /\ UNCHANGED <<debug, arg, status, input0, flag0, finished, last_call,
                 last_exit>>
  /\ UNCHANGED cacheVars

\* The caller's with block is left.
WithExit(t) ==
  /\ stack[t] # <<>> /\ Top(t).kind = "with"
  /\ fast_log_prob' = feature_flag_exit(Top(t))
  /\ stack' = Pop(t)
  /\ UNCHANGED <<debug, arg, status, input0, flag0, finished, last_call,
                 last_exit>>
  /\ UNCHANGED cacheVars

(***************************************************************************)
(* Specifications.                                                         *)
(***************************************************************************)
InitWith(inputs, flags, lazies) ==
  /\ debug \in BOOLEAN
  /\ fast_log_prob \in flags
  /\ flag0 = fast_log_prob
  /\ arg \in {[lazy |-> l, ref |-> Ref("T0", IF l THEN "lazy" ELSE "full")] :
               l \in lazies}
  /\ \E m \in inputs :
       /\ heap = [T0 |-> m, T1 |-> NoTensor]
       /\ input0 = m
  /\ status = "new"
  /\ self = NoInstance
  /\ evaluations = 0
  /\ diag_computations = 0
  /\ ret = NoCall
  /\ first_chol = NoTensor
  /\ accessed = FALSE
  /\ stack = [t \in Threads |-> <<>>]
  /\ finished = [t \in Threads |-> FALSE]
  /\ last_call = NoLastCall
  /\ last_exit = NoExit

\* Inputs of the executions that go on after construction.
LifeInputs == SquareMatrices(2, {Fin(0), Fin(MaxMag)})

\* One instance used by a single thread: construction, the accessors,
\* inv_quad_logdet, and overrides the caller opens itself.
Init == InitWith(LifeInputs, BOOLEAN, {FALSE})

Next ==
  \/ Construct
  \/ CallCholesky
  \/ CallChol
  \/ CallCholDiag
  \/ IqlInit(Main, IqlArgs)
  \/ IqlEnter(Main)
  \/ SuperBegin(Main)
  \/ SuperEnd(Main)
  \/ IqlExit(Main)
  \/ WithEnter(Main)
  \/ WithExit(Main)

Spec == Init /\ [][Next]_vars

\* Construction alone, over every input matrix.
InitCtor == InitWith(CtorInputs, {TRUE}, BOOLEAN)

NextCtor == Construct

SpecCtor == InitCtor /\ [][NextCtor]_vars

\* The accessors with a caller that writes into the vector it was handed.
NextAlias ==
  \/ Construct
  \/ CallCholesky
  \/ CallChol
  \/ CallCholDiag
  \/ MutateReturnedDiag

SpecAlias == Init /\ [][NextAlias]_vars

\* Two threads calling inv_quad_logdet on one instance, sharing the flag.
InitConc == InitWith({<< <<Fin(1), Fin(0)>>, <<Fin(0), Fin(1)>> >>}, BOOLEAN, {FALSE})

NextConc ==
  \/ Construct
  \/ \E t \in Threads :
       \/ IqlInit(t, {DefaultArgs})
       \/ IqlEnter(t)
       \/ SuperBegin(t)
       \/ SuperEnd(t)
       \/ IqlExit(t)

SpecConc == InitConc /\ [][NextConc]_vars

(***************************************************************************)
(* Properties.                                                             *)
(***************************************************************************)
Built == status # "new"

Idle(t) == stack[t] = <<>>

\* C1: with debug mode on, construction from a matrix without NaN that has
\* an entry strictly above the diagonal of magnitude above 1e-3 raises,
\* whatever the sign of that entry.
C1_DebugRejectsUpperMass ==
  (Built /\ debug /\ ~HasNaN(input0) /\ HasUpperMass(input0))
    => status = "raised"

\* C2: construction raises only with debug mode on and an entry strictly
\* above the diagonal of magnitude above 1e-3; with debug mode off it
\* succeeds for every input, and with debug mode on it succeeds whenever
\* every such entry has magnitude at most 1e-3.
C2_RaisedOnlyForUpperMass ==
  /\ status = "raised" => (debug /\ HasUpperMass(input0))
  /\ (Built /\ ~debug) => status = "ok"
  /\ (Built /\ debug /\ ~HasUpperMass(input0)) => status = "ok"

\* A lower-triangular matrix with large entries on and below the diagonal
\* was accepted in debug mode.
C2_Witness ==
  /\ status = "ok" /\ debug
  /\ IsLowerTriangular(input0)
  /\ GtTol(input0[1][1]) /\ MagGtTol(input0[2][1])

\* C9: with debug mode on, a matrix with an entry strictly above the
\* diagonal of magnitude above 1e-3 that also holds a NaN is accepted.
C9_NaNPassesValidation ==
  (Built /\ debug /\ HasUpperMass(input0) /\ HasNaN(input0)) => status = "ok"

\* Accepted in debug mode: a large positive entry above the diagonal and a
\* NaN below it.
C9_Witness ==
  /\ status = "ok" /\ debug
  /\ Len(input0) = 2
  /\ GtTol(input0[1][2]) /\ input0[2][1] = NaN

\* C3: for a lower-triangular L, _cholesky returns the instance's own root,
\* whose elements are L's, at any point of the instance's life.
C3_CholeskyReturnsRoot ==
  (ret.op = "_cholesky" /\ IsLowerTriangular(input0))
    => /\ ret.ref = self.root
       /\ ret.ref # None
       /\ ret.val = input0

\* _cholesky returned after both accessors and an inv_quad_logdet call.
C3_Witness ==
  /\ ret.op = "_cholesky" /\ IsLowerTriangular(input0)
  /\ GtTol(input0[2][1])
  /\ self.chol_diag_memo # None
  /\ finished[Main]

\* C4: root.evaluate() runs at most once per instance, and exactly once as
\* soon as either accessor was called; every _chol call returns what the
\* first returned, and the memo, once set, stays.
C4_FactorMemoised ==
  /\ evaluations = (IF accessed THEN 1 ELSE 0)
  /\ ret.op = "_chol" => ret.val = first_chol
  /\ first_chol # NoTensor =>
       (self.chol_memo # None /\ Deref(heap, self.chol_memo) = first_chol)

\* _chol was read again after _chol_diag had read it.
C4_Witness ==
  /\ ret.op = "_chol"
  /\ self.chol_diag_memo # None
  /\ evaluations = 1

\* C5: after the caller mutates the vector _chol_diag returned, the next
\* _chol_diag call still returns the original diagonal.
C5_CopyOnRead ==
  ret.op = "_chol_diag" => ret.val = diagonal(input0)

\* C5, amended: the copy is taken when the diagonal is first computed, so
\* the caller's writes never reach the factor or the root, but _chol_diag
\* hands out the memo itself and the next call returns the written values.
C5_CopyOnPopulate ==
  /\ status = "ok" => Deref(heap, self.root) = input0
  /\ self.chol_diag_memo # None => self.chol_diag_memo.obj # self.root.obj
  /\ ret.op = "_chol_diag" =>
       (ret.ref = self.chol_diag_memo /\ ret.val = Deref(heap, ret.ref))

\* _chol_diag returned values the caller had written, the factor intact.
C5_Witness ==
  /\ ret.op = "_chol_diag"
  /\ ret.val # diagonal(input0)
  /\ Deref(heap, self.chol_memo) = input0

\* C6: whenever the diagonal memo is set, so is the factor memo, and the
\* diagonal memo holds the factor memo's main diagonal; the diagonal is
\* computed once per instance.
C6_DiagonalOfCachedFactor ==
  /\ self.chol_diag_memo # None =>
       /\ self.chol_memo # None
       /\ Deref(heap, self.chol_diag_memo) = diagonal(Deref(heap, self.chol_memo))
  /\ diag_computations = (IF self.chol_diag_memo # None THEN 1 ELSE 0)

\* _chol_diag was the first accessor called, and was called again after
\* _cholesky; the factor memo was filled on its behalf.
C6_Witness ==
  /\ ret.op = "_chol_diag"
  /\ first_chol = NoTensor
  /\ evaluations = 1 /\ diag_computations = 1
  /\ input0[1][1] # input0[2][2]

\* C7: in one thread, when inv_quad_logdet comes back, by return or by
\* raise, the flag has the value it had when the call started, also for
\* calls inside an override the caller opened; with every scope closed the
\* flag is what it was at the start.
C7_FlagRestored ==
  /\ last_call.outcome # "none" => last_call.post = last_call.pre
  /\ Idle(Main) => fast_log_prob = flag0

\* A call that raised, made inside a caller's override that had switched
\* the flag on.
C7_Witness ==
  /\ last_call.outcome = "raised"
  /\ last_call.pre = TRUE /\ flag0 = FALSE
  /\ Len(stack[Main]) = 1

\* C8: in one thread, the inherited inv_quad_logdet sees the flag off from
\* its start to its end, whatever the flag was before and whatever the
\* arguments.
C8_SuperRunsExact ==
  /\ \A i \in 1..Len(stack[Main]) :
       LET f == stack[Main][i]
       IN  (f.kind = "iql" /\ f.pc \in {"entered", "running", "done"})
             => (fast_log_prob = FALSE /\ f.seen \subseteq {FALSE})
  /\ last_call.seen \subseteq {FALSE}

\* The inherited call ended with the flag off, started from a flag that was
\* on, with a right-hand side, logdet requested and no reduction.
C8_Witness ==
  /\ ~Idle(Main)
  /\ Top(Main).kind = "iql" /\ Top(Main).pc = "done"
  /\ Top(Main).pre = TRUE /\ Top(Main).seen = {FALSE}
  /\ Top(Main).args = [rhs |-> TRUE, logdet |-> TRUE, reduce |-> FALSE]

\* C10: with two threads, once both calls are back the flag can differ from
\* its value before either started; when it does, it was on, is now off,
\* and the thread that restored last had saved the overridden value.
C10_LostRestore ==
  ((\A t \in Threads : finished[t] /\ Idle(t)) /\ fast_log_prob # flag0)
    => (flag0 = TRUE /\ fast_log_prob = FALSE /\ last_exit.prev = FALSE)

\* Both threads are back and the flag is not what it was.
C10_Witness ==
  /\ \A t \in Threads : finished[t] /\ Idle(t)
  /\ fast_log_prob # flag0

====
